---- MODULE Spec2Model ----
(***************************************************************************)
(* Model of mqtt-noisemeter (src/main.py): the NoiseMonitor ring buffer,   *)
(* the capture callback that writes it, get_recent_audio that reads it,    *)
(* the processing loop (warm-up, analysis, publish) and shutdown.          *)
(*                                                                         *)
(* Durations and the clock are counted in tenths of a second, so that      *)
(* int(sample_rate * seconds) is IntTrunc(sample_rate * tenths, 10).       *)
(* A sample is represented by its sequence number in the device's          *)
(* delivery order (1, 2, 3, ...); 0 is the zero fill of np.zeros.          *)
(***************************************************************************)
EXTENDS Integers, Sequences, FiniteSets, TLC

VARIABLES
    \* configuration (lines 28-31, 87, 90)
    sample_rate, channels, buffer_duration, analysis_window, buffer_size,
    \* ring buffer and statistics (lines 36-40, 58-59)
    audio_buffer, write_index, buffer_lock, overflow_count, total_frames,
    \* the capture device and the callback in progress (lines 107-131)
    delivered, cb_pc, cb_frames, cb_end_index, cb_pre,
    \* the processing thread (lines 133-151, 172-205, 258-283)
    sched_pc, duration_seconds, samples_needed, start_index, stop_index,
    samples, data,
    ready_to_publish, cycles, published, sched_error, read_snaps,
    wait_timed_out,
    \* clock, main thread and shutdown (lines 285-354)
    now, stream_start_time, shutdown_event, main_pc, shutdown_calls,
    stream_active, mqtt_connected,
    \* the last ring-buffer operation applied as a whole
    last_op

cfgvars   == <<sample_rate, channels, buffer_duration, analysis_window, buffer_size>>
bufvars   == <<audio_buffer, write_index, overflow_count, total_frames>>
cbvars    == <<delivered, cb_pc, cb_frames, cb_end_index, cb_pre>>
readvars  == <<duration_seconds, samples_needed, start_index, stop_index, samples>>
schedvars == <<sched_pc, data, ready_to_publish, cycles, published, sched_error, read_snaps,
               wait_timed_out>>
mainvars  == <<now, stream_start_time, shutdown_event, main_pc, shutdown_calls,
               stream_active, mqtt_connected>>
vars == <<cfgvars, bufvars, buffer_lock, cbvars, readvars, schedvars, mainvars, last_op>>

----------------------------------------------------------------------------
(* Bounds of the model *)

\* samples the device delivers in one run
MaxDelivered == 10
\* frames of one capture block in the ring-buffer specification
MaxFrames == 9
\* largest |duration| (tenths of a second) passed to get_recent_audio
MaxDuration == 4
\* capture blocks flagged input_overflow in one run
MaxOverflows == 1
\* samples the device delivers while the processing thread runs
MaxStreamed == 4
\* frames of one capture block while the processing thread runs
MaxBlock == 2
\* analysis cycles the processing loop begins in one run
MaxCycles == 2
\* latest clock reading (tenths of a second)
MaxNow == 4

Rates == {10, 15}
BufferDurations == {2, 3}
AnalysisWindows == {2, 3}

----------------------------------------------------------------------------
(* Python and numpy primitives *)

Min(a, b) == IF a < b THEN a ELSE b
Max(a, b) == IF a > b THEN a ELSE b

\* int(x) of the float x = num / den: truncation toward zero
IntTrunc(num, den) ==
    IF num >= 0 THEN num \div den ELSE -((-num) \div den)

\* Python's a % m for m > 0 (result in 0 .. m-1)
PyMod(a, m) == a % m

\* a slice bound of an array of length n, as numpy normalises it
SliceBound(i, n) == IF i < 0 THEN Max(i + n, 0) ELSE Min(i, n)

\* s[a:b]
Slice(s, a, b) ==
    LET lo == SliceBound(a, Len(s))
        hi == SliceBound(b, Len(s))
    IN  IF lo >= hi THEN << >> ELSE SubSeq(s, lo + 1, hi)

\* s[a:b] = d : the array after the assignment, or a ValueError when d has
\* neither the slice's length nor length 1
SetSlice(s, a, b, d) ==
    LET lo == SliceBound(a, Len(s))
        hi == Max(lo, SliceBound(b, Len(s)))
        n  == hi - lo
    IN  IF Len(d) = n
        THEN [ok |-> TRUE,
              buf |-> [i \in 1..Len(s) |->
                          IF i > lo /\ i <= hi THEN d[i - lo] ELSE s[i]]]
        ELSE IF Len(d) = 1
        THEN [ok |-> TRUE,
              buf |-> [i \in 1..Len(s) |->
                          IF i > lo /\ i <= hi THEN d[1] ELSE s[i]]]
        ELSE [ok |-> FALSE, buf |-> s]

\* np.zeros(n)
Zeros(n) == [i \in 1..n |-> 0]

----------------------------------------------------------------------------
(* audio_callback, lines 107-131 *)

\* the block the device hands in: `frames` rows, every channel carrying the
\* samples delivered after the first `before` ones
Indata(before, frames, nch) ==
    [i \in 1..frames |-> [c \in 1..nch |-> before + i]]

\* line 131 counting blocks for frames
CountFrames_Blocks(total, frames) == total + 1

\* line 131
CountFrames(total, frames) == total + frames

\* lines 110-111 counting every block
CountOverflow_EveryBlock(count, overflow) == count + 1

\* lines 110-111
CountOverflow(count, overflow) == IF overflow THEN count + 1 ELSE count

\* lines 114-117
MonoData(indata, nch) ==
    IF nch = 1
    THEN [i \in 1..Len(indata) |-> indata[i][1]]
    ELSE [i \in 1..Len(indata) |-> (indata[i][1] + indata[i][2]) \div 2]

\* line 120
EndIndex(w, frames) == w + frames

\* line 123 or line 127: the first store of the block
Store1(buf, w, size, mono, frames) ==
    IF EndIndex(w, frames) <= size
    THEN SetSlice(buf, w, EndIndex(w, frames), mono)
    ELSE SetSlice(buf, w, size, Slice(mono, 0, size - w))

\* line 128 copying the head of the block again instead of its tail
Store2_HeadAgain(buf, w, size, mono, frames) ==
    IF EndIndex(w, frames) <= size
    THEN [ok |-> TRUE, buf |-> buf]
    ELSE SetSlice(buf, 0, EndIndex(w, frames) - size,
                  Slice(mono, 0, EndIndex(w, frames) - size))

\* line 128: the second store, wraparound case only
Store2(buf, w, size, mono, frames) ==
    IF EndIndex(w, frames) <= size
    THEN [ok |-> TRUE, buf |-> buf]
    ELSE SetSlice(buf, 0, EndIndex(w, frames) - size,
                  Slice(mono, size - w, Len(mono)))

\* line 130 without the modulo
NextWriteIndex_NoWrap(end_index, size) == end_index

\* line 130
NextWriteIndex(end_index, size) == PyMod(end_index, size)

----------------------------------------------------------------------------
(* get_recent_audio, lines 133-151 *)

\* lines 135-137
SamplesNeeded(rate, duration, size) ==
    LET n == IntTrunc(rate * duration, 10)
    IN  IF n > size THEN size ELSE n

\* line 141
StartIndex(w, needed, size) == PyMod(w - needed, size)

\* line 143 with <= for <
NoWraparound_OrEqual(start, w) == start <= w

\* line 143
NoWraparound(start, w) == start < w

\* a basic slice buf[start:stop] is a view: it owns no data and each of its
\* elements is a cell of buf, written here as minus the cell's position
View(buf, start, stop) ==
    LET a == SliceBound(start, Len(buf))
        b == SliceBound(stop, Len(buf))
    IN  [i \in 1..Max(b - a, 0) |-> -(a + i)]

\* what an array reads as: its own values, and for the elements of a view
\* the present content of the cell
Deref(arr, buf) ==
    [i \in 1..Len(arr) |-> IF arr[i] < 0 THEN buf[-arr[i]] ELSE arr[i]]

\* line 145 without .copy(): the slice itself is returned
CopySlice_View(buf, start, stop) == View(buf, start, stop)

\* line 145, the copy of one contiguous slice
CopySlice(buf, start, stop) == Slice(buf, start, stop)

\* lines 148-151, the concatenation of the two parts
Concatenate(buf, start, stop) == Slice(buf, start, Len(buf)) \o Slice(buf, 0, stop)

\* lines 141-151 with nothing running in between
RecentAudio(buf, w, needed, size) ==
    LET start == StartIndex(w, needed, size)
    IN  IF NoWraparound(start, w)
        THEN CopySlice(buf, start, w)
        ELSE Concatenate(buf, start, w)

----------------------------------------------------------------------------
(* Initial states *)

NoBlock == [buf |-> << >>, index |-> 0, total |-> 0]

\* NoiseMonitor.__init__ followed by setup_audio_device (lines 18-63, 87-91)
\* for a device rate, channel count, buffer duration and analysis window
Constructed(rate, nch, bd, aw) ==
    /\ sample_rate = rate
    /\ channels = nch
    /\ buffer_duration = bd
    /\ analysis_window = aw
    /\ buffer_size = IntTrunc(rate * bd, 10)
    /\ audio_buffer = Zeros(IntTrunc(rate * bd, 10))
    /\ write_index = 0
    /\ buffer_lock = "free"
    /\ overflow_count = 0
    /\ total_frames = 0
    /\ delivered = 0
    /\ cb_pc = "idle"
    /\ cb_frames = 0
    /\ cb_end_index = 0
    /\ cb_pre = NoBlock
    /\ sched_pc = "not_started"
    /\ duration_seconds = 0
    /\ samples_needed = 0
    /\ start_index = 0
    /\ stop_index = 0
    /\ samples = << >>
    /\ data = << >>
    /\ ready_to_publish = FALSE
    /\ cycles = 0
    /\ published = 0
    /\ sched_error = "none"
    /\ read_snaps = {}
    /\ wait_timed_out = FALSE
    /\ now = 1
    /\ stream_start_time = 0
    /\ shutdown_event = FALSE
    /\ main_pc = "connect"
    /\ shutdown_calls = 0
    /\ stream_active = FALSE
    /\ mqtt_connected = FALSE
    /\ last_op = "none"

----------------------------------------------------------------------------
(* The ring buffer alone: whole calls of audio_callback and                *)
(* get_recent_audio, one after the other                                   *)

InitRing ==
    \E rate \in Rates, nch \in {1, 2}, bd \in BufferDurations :
        Constructed(rate, nch, bd, bd)

\* audio_callback(indata, frames, time_info, status), lines 107-131, run
\* from entry to return or to the ValueError of a slice assignment
audio_callback(frames, overflow) ==
    LET mono == MonoData(Indata(delivered, frames, channels), channels)
        s1   == Store1(audio_buffer, write_index, buffer_size, mono, frames)
        s2   == Store2(s1.buf, write_index, buffer_size, mono, frames)
    IN  /\ delivered + frames <= MaxDelivered
        /\ overflow => overflow_count < MaxOverflows
        /\ overflow_count' = CountOverflow(overflow_count, overflow)
        /\ delivered' = delivered + frames
        /\ cb_frames' = frames
        /\ cb_end_index' = EndIndex(write_index, frames)
        /\ cb_pre' = [buf |-> audio_buffer, index |-> write_index, total |-> total_frames]
        /\ IF s1.ok /\ s2.ok
           THEN /\ audio_buffer' = s2.buf
                /\ write_index' = NextWriteIndex(EndIndex(write_index, frames), buffer_size)
                /\ total_frames' = CountFrames(total_frames, frames)
                /\ last_op' = "write"
           ELSE /\ audio_buffer' = s1.buf
                /\ UNCHANGED <<write_index, total_frames>>
                /\ last_op' = "write_raised"
        /\ UNCHANGED <<cfgvars, buffer_lock, cb_pc, readvars, schedvars, mainvars>>

\* get_recent_audio(duration_seconds), lines 133-151, run from entry to return
get_recent_audio(duration) ==
    LET needed == SamplesNeeded(sample_rate, duration, buffer_size)
    IN  /\ buffer_lock = "free"
        /\ duration_seconds' = duration
        /\ samples_needed' = needed
        /\ start_index' = StartIndex(write_index, needed, buffer_size)
        /\ stop_index' = write_index
        /\ samples' = RecentAudio(audio_buffer, write_index, needed, buffer_size)
        /\ last_op' = "read"
        /\ UNCHANGED <<cfgvars, bufvars, buffer_lock, cbvars, schedvars, mainvars>>

NextRing ==
    \/ \E frames \in 0..MaxFrames, overflow \in BOOLEAN : audio_callback(frames, overflow)
    \/ \E duration \in (-MaxDuration)..MaxDuration : get_recent_audio(duration)

SpecRing == InitRing /\ [][NextRing]_vars

----------------------------------------------------------------------------
(* analyze_audio, lines 172-205 *)

\* line 181
ChunkSize(rate) == IntTrunc(rate * 1, 10)

\* line 184: range(0, n, chunk_size)
ChunkStarts(n, chunk_size) == {i \in 0..(n - 1) : i % chunk_size = 0}

\* lines 185-186: the chunks that enter db_values
IncludedChunks(n, chunk_size) ==
    {i \in ChunkStarts(n, chunk_size) :
        Len(Slice([k \in 1..n |-> k], i, i + chunk_size)) >= chunk_size \div 2}

\* lines 177-205 on the window returned by get_recent_audio: << >> is None,
\* range() raises ValueError for a zero step and line 203 turns it into None
AnalyzeWindow(window, rate, overflows) ==
    IF Len(window) = 0 THEN << >>
    ELSE IF ChunkSize(rate) = 0 THEN << >>
    ELSE IF IncludedChunks(Len(window), ChunkSize(rate)) = {} THEN << >>
    ELSE << [chunks |-> Cardinality(IncludedChunks(Len(window), ChunkSize(rate))),
             window |-> Len(window),
             overflows |-> overflows] >>

----------------------------------------------------------------------------
(* The running program: main thread, capture callback, processing thread *)

Init == \E aw \in AnalysisWindows : Constructed(10, 1, 3, aw)

(* --- main thread: run, lines 285-323 --- *)

\* lines 291-293
run_connect ==
    /\ main_pc = "connect"
    /\ mqtt_connected' = TRUE
    /\ main_pc' = "stream"
    /\ UNCHANGED <<cfgvars, bufvars, buffer_lock, cbvars, readvars, schedvars,
                   now, stream_start_time, shutdown_event, shutdown_calls,
                   stream_active, last_op>>

\* lines 296-305
run_stream_start ==
    /\ main_pc = "stream"
    /\ stream_active' = TRUE
    /\ stream_start_time' = now
    /\ main_pc' = "thread"
    /\ UNCHANGED <<cfgvars, bufvars, buffer_lock, cbvars, readvars, schedvars,
                   now, shutdown_event, shutdown_calls, mqtt_connected, last_op>>

\* lines 309-310
run_thread_start ==
    /\ main_pc = "thread"
    /\ sched_pc' = "loop"
    /\ main_pc' = "main_loop"
    /\ UNCHANGED <<cfgvars, bufvars, buffer_lock, cbvars, readvars, data,
                   ready_to_publish, cycles, published, sched_error, read_snaps,
                   wait_timed_out, now, stream_start_time, shutdown_event, shutdown_calls,
                   stream_active, mqtt_connected, last_op>>

\* SIGINT or SIGTERM during the main loop (lines 315-316): signal_handler,
\* lines 351-354, calls monitor.shutdown()
signal_handler ==
    /\ main_pc = "main_loop"
    /\ shutdown_calls = 0
    /\ shutdown_calls' = 1
    /\ main_pc' = "sh_set"
    /\ UNCHANGED <<cfgvars, bufvars, buffer_lock, cbvars, readvars, schedvars,
                   now, stream_start_time, shutdown_event, stream_active,
                   mqtt_connected, last_op>>

\* line 332
shutdown_set_event ==
    /\ main_pc = "sh_set"
    /\ shutdown_event' = TRUE
    /\ main_pc' = "sh_stream"
    /\ UNCHANGED <<cfgvars, bufvars, buffer_lock, cbvars, readvars, schedvars,
                   now, stream_start_time, shutdown_calls, stream_active,
                   mqtt_connected, last_op>>

\* lines 334-336 with a stop() that does not wait for the callback
StopReturns_AtOnce == TRUE

\* lines 334-336: stop() returns once the callback in progress has returned
StopReturns == cb_pc = "idle"

\* lines 334-336
shutdown_stop_stream ==
    /\ main_pc = "sh_stream"
    /\ StopReturns
    /\ stream_active' = FALSE
    /\ main_pc' = "sh_join"
    /\ UNCHANGED <<cfgvars, bufvars, buffer_lock, cbvars, readvars, schedvars,
                   now, stream_start_time, shutdown_event, shutdown_calls,
                   mqtt_connected, last_op>>

\* lines 338-339: join(timeout=2.0) returns when the thread has ended, and
\* after two seconds when it has not, so it returns in every state
shutdown_join ==
    /\ main_pc = "sh_join"
    /\ main_pc' = "sh_mqtt"
    /\ UNCHANGED <<cfgvars, bufvars, buffer_lock, cbvars, readvars, schedvars,
                   now, stream_start_time, shutdown_event, shutdown_calls,
                   stream_active, mqtt_connected, last_op>>

\* lines 341-344; the handler's sys.exit(0) (line 354) then raises SystemExit
\* in run(), whose finally clause (line 323) calls shutdown() again
shutdown_disconnect ==
    /\ main_pc = "sh_mqtt"
    /\ mqtt_connected' = FALSE
    /\ IF shutdown_calls = 1
       THEN /\ shutdown_calls' = 2
            /\ main_pc' = "sh_set"
       ELSE /\ main_pc' = "exited"
            /\ UNCHANGED shutdown_calls
    /\ UNCHANGED <<cfgvars, bufvars, buffer_lock, cbvars, readvars, schedvars,
                   now, stream_start_time, shutdown_event, stream_active, last_op>>

\* time.time() moves on (only its distance from stream_start_time is read)
clock_tick ==
    /\ main_pc # "exited"
    /\ stream_start_time # 0
    /\ now < MaxNow
    /\ now' = now + 1
    /\ UNCHANGED <<cfgvars, bufvars, buffer_lock, cbvars, readvars, schedvars,
                   stream_start_time, shutdown_event, main_pc, shutdown_calls,
                   stream_active, mqtt_connected, last_op>>

(* --- capture thread: audio_callback, lines 107-131, statement by statement --- *)

\* the block of the callback in progress
cb_mono == MonoData(Indata(delivered - cb_frames, cb_frames, channels), channels)

\* lines 110-120: the device hands in a block
cb_invoke(frames, overflow) ==
    /\ stream_active
    /\ main_pc # "exited"
    /\ cb_pc = "idle"
    /\ delivered + frames <= MaxStreamed
    /\ overflow => overflow_count < MaxOverflows
    /\ overflow_count' = CountOverflow(overflow_count, overflow)
    /\ delivered' = delivered + frames
    /\ cb_frames' = frames
    /\ cb_end_index' = EndIndex(write_index, frames)
    /\ cb_pre' = [buf |-> audio_buffer, index |-> write_index, total |-> total_frames]
    /\ cb_pc' = "store1"
    /\ UNCHANGED <<cfgvars, audio_buffer, write_index, total_frames, buffer_lock,
                   readvars, schedvars, mainvars, last_op>>

\* lines 119-131 inside `with self.buffer_lock:`
CallbackMayProceed_Locked == buffer_lock = "free"

\* what the callback waits for before it touches the buffer: lines 119-131
\* acquire nothing
CallbackMayProceed == TRUE

\* line 123, or line 127
cb_store1 ==
    /\ cb_pc = "store1"
    /\ CallbackMayProceed
    /\ audio_buffer' = Store1(audio_buffer, write_index, buffer_size, cb_mono, cb_frames).buf
    /\ cb_pc' = IF cb_end_index <= buffer_size THEN "advance" ELSE "store2"
    /\ UNCHANGED <<cfgvars, write_index, overflow_count, total_frames, buffer_lock,
                   delivered, cb_frames, cb_end_index, cb_pre,
                   readvars, schedvars, mainvars, last_op>>

\* the window an uninterrupted get_recent_audio would return now
WindowNow(buf, w) == RecentAudio(buf, w, samples_needed, buffer_size)

\* line 128; a ValueError ends the callback before lines 130-131
cb_store2 ==
    LET s2 == Store2(audio_buffer, write_index, buffer_size, cb_mono, cb_frames)
    IN  /\ cb_pc = "store2"
        /\ audio_buffer' = s2.buf
        /\ cb_pc' = IF s2.ok THEN "advance" ELSE "idle"
        /\ read_snaps' = IF ~s2.ok /\ buffer_lock # "free"
                         THEN read_snaps \cup {WindowNow(s2.buf, write_index)}
                         ELSE read_snaps
        /\ cb_frames' = IF s2.ok THEN cb_frames ELSE 0
        /\ cb_end_index' = IF s2.ok THEN cb_end_index ELSE 0
        /\ cb_pre' = IF s2.ok THEN cb_pre ELSE NoBlock
        /\ UNCHANGED <<cfgvars, write_index, overflow_count, total_frames, buffer_lock,
                       delivered, readvars, sched_pc, data, ready_to_publish, cycles,
                       published, sched_error, wait_timed_out, mainvars, last_op>>

\* line 130
cb_advance ==
    /\ cb_pc = "advance"
    /\ write_index' = NextWriteIndex(cb_end_index, buffer_size)
    /\ cb_pc' = "count"
    /\ read_snaps' = IF buffer_lock # "free"
                     THEN read_snaps \cup
                          {WindowNow(audio_buffer, NextWriteIndex(cb_end_index, buffer_size))}
                     ELSE read_snaps
    /\ UNCHANGED <<cfgvars, audio_buffer, overflow_count, total_frames, buffer_lock,
                   delivered, cb_frames, cb_end_index, cb_pre, readvars,
                   sched_pc, data, ready_to_publish, cycles, published,
                   sched_error, wait_timed_out, mainvars, last_op>>

\* line 131, and the return: the callback's locals are gone
cb_count ==
    /\ cb_pc = "count"
    /\ total_frames' = CountFrames(total_frames, cb_frames)
    /\ cb_pc' = "idle"
    /\ cb_frames' = 0
    /\ cb_end_index' = 0
    /\ cb_pre' = NoBlock
    /\ UNCHANGED <<cfgvars, audio_buffer, write_index, overflow_count, buffer_lock,
                   delivered, readvars, schedvars, mainvars, last_op>>

(* --- processing thread: processing_loop, lines 258-283 --- *)

\* line 266 comparing the clock itself, not the time since the stream started
WarmupDone_Absolute ==
    /\ stream_start_time # 0
    /\ now >= analysis_window

\* line 266
WarmupDone ==
    /\ stream_start_time # 0
    /\ (now - stream_start_time) >= analysis_window

\* the loop without its try/except: an exception of publish_data ends the thread
OnException_NoLoopHandler(where) ==
    IF where \in {"read", "analyze"} THEN "publish" ELSE "crashed"

\* where control continues after an exception raised in a step of the tick:
\* analyze_audio's handler (lines 203-205) returns None to line 276, the
\* loop's handler (lines 281-283) waits one second
OnException(where) ==
    IF where \in {"read", "analyze"} THEN "publish" ELSE "error_wait"

\* lines 262-271: the loop test, then the warm-up check of a tick
loop_head ==
    /\ sched_pc = "loop"
    /\ main_pc # "exited"
    /\ IF shutdown_event
       THEN /\ sched_pc' = "done"
            /\ UNCHANGED <<ready_to_publish, cycles, sched_error>>
       ELSE IF ~ready_to_publish /\ ~WarmupDone
       THEN /\ sched_pc' = "warm_wait"
            /\ UNCHANGED <<ready_to_publish, cycles, sched_error>>
       ELSE /\ cycles < MaxCycles
            /\ ready_to_publish' = TRUE
            /\ cycles' = cycles + 1
            /\ sched_error' = "none"
            /\ sched_pc' = "enter"
    /\ UNCHANGED <<cfgvars, bufvars, buffer_lock, cbvars, readvars, data,
                   published, read_snaps, wait_timed_out, mainvars, last_op>>

\* Event.wait(timeout) as time.sleep(timeout): the event is not looked at
WaitReturns_Sleep == wait_timed_out

\* shutdown_event.wait(t), lines 270, 279 and 283: returns as soon as the
\* event is set, and when the timeout has passed
WaitReturns == shutdown_event \/ wait_timed_out

\* the timeout of the wait in progress passes
wait_timeout ==
    /\ sched_pc \in {"warm_wait", "wait", "error_wait"}
    /\ main_pc # "exited"
    /\ ~wait_timed_out
    /\ wait_timed_out' = TRUE
    /\ UNCHANGED <<cfgvars, bufvars, buffer_lock, cbvars, readvars, sched_pc, data,
                   ready_to_publish, cycles, published, sched_error, read_snaps,
                   mainvars, last_op>>

\* the return of shutdown_event.wait(t) at line 270, 279 or 283, and the
\* jump back to the loop test
event_wait ==
    /\ sched_pc \in {"warm_wait", "wait", "error_wait"}
    /\ main_pc # "exited"
    /\ WaitReturns
    /\ wait_timed_out' = FALSE
    /\ sched_pc' = "loop"
    /\ UNCHANGED <<cfgvars, bufvars, buffer_lock, cbvars, readvars, data,
                   ready_to_publish, cycles, published, sched_error, read_snaps,
                   mainvars, last_op>>

\* the buffer and cursor as the last callback to return left them
Committed ==
    IF cb_pc \in {"store1", "store2", "advance"}
    THEN [buf |-> cb_pre.buf, index |-> cb_pre.index]
    ELSE [buf |-> audio_buffer, index |-> write_index]

\* lines 175 and 135-141: the call, samples_needed, the lock taken and
\* start_index computed
read_enter ==
    /\ sched_pc = "enter"
    /\ main_pc # "exited"
    /\ buffer_lock = "free"
    /\ buffer_lock' = "processing"
    /\ duration_seconds' = analysis_window
    /\ samples_needed' = SamplesNeeded(sample_rate, analysis_window, buffer_size)
    /\ start_index' = StartIndex(write_index,
                                 SamplesNeeded(sample_rate, analysis_window, buffer_size),
                                 buffer_size)
    /\ read_snaps' = {RecentAudio(Committed.buf, Committed.index,
                                  SamplesNeeded(sample_rate, analysis_window, buffer_size),
                                  buffer_size)}
    /\ sched_pc' = "compare"
    /\ UNCHANGED <<cfgvars, bufvars, cbvars, stop_index, samples,
                   data, ready_to_publish, cycles, published, sched_error,
                   wait_timed_out, mainvars, last_op>>

\* line 143
read_compare ==
    /\ sched_pc = "compare"
    /\ main_pc # "exited"
    /\ sched_pc' = IF NoWraparound(start_index, write_index)
                   THEN "slice_nowrap" ELSE "slice_wrap"
    /\ UNCHANGED <<cfgvars, bufvars, buffer_lock, cbvars, readvars, data,
                   ready_to_publish, cycles, published, sched_error, read_snaps,
                   wait_timed_out, mainvars, last_op>>

\* line 145 or line 150: self.write_index evaluated as the slice's stop
read_stop ==
    /\ sched_pc \in {"slice_nowrap", "slice_wrap"}
    /\ main_pc # "exited"
    /\ stop_index' = write_index
    /\ sched_pc' = IF sched_pc = "slice_nowrap" THEN "copy_nowrap" ELSE "copy_wrap"
    /\ UNCHANGED <<cfgvars, bufvars, buffer_lock, cbvars, duration_seconds,
                   samples_needed, start_index, samples, data, ready_to_publish,
                   cycles, published, sched_error, read_snaps, wait_timed_out,
                   mainvars, last_op>>

\* line 145 .copy() or lines 148-151 np.concatenate, the return and the
\* release of the lock
read_copy ==
    /\ sched_pc \in {"copy_nowrap", "copy_wrap"}
    /\ main_pc # "exited"
    /\ samples' = IF sched_pc = "copy_nowrap"
                  THEN CopySlice(audio_buffer, start_index, stop_index)
                  ELSE Concatenate(audio_buffer, start_index, stop_index)
    /\ buffer_lock' = "free"
    /\ start_index' = 0
    /\ stop_index' = 0
    /\ sched_pc' = "analyze"
    /\ UNCHANGED <<cfgvars, bufvars, cbvars, duration_seconds, samples_needed,
                   data, ready_to_publish, cycles, published, sched_error,
                   read_snaps, wait_timed_out, mainvars, last_op>>

\* the copy raises (no memory for the window): the with statement releases
\* the lock and analyze_audio's handler takes over
read_raise ==
    /\ sched_pc \in {"copy_nowrap", "copy_wrap"}
    /\ main_pc # "exited"
    /\ buffer_lock' = "free"
    /\ sched_error' = "read"
    /\ data' = << >>
    /\ read_snaps' = {}
    /\ start_index' = 0
    /\ stop_index' = 0
    /\ sched_pc' = OnException("read")
    /\ UNCHANGED <<cfgvars, bufvars, cbvars, duration_seconds, samples_needed,
                   samples, ready_to_publish, cycles, published, wait_timed_out,
                   mainvars, last_op>>

\* lines 177-201, or an exception in them; the window is not used again
analyze_audio ==
    /\ sched_pc = "analyze"
    /\ main_pc # "exited"
    /\ \/ /\ data' = AnalyzeWindow(samples, sample_rate, overflow_count)
          /\ sched_pc' = "publish"
          /\ UNCHANGED sched_error
       \/ /\ data' = << >>
          /\ sched_error' = "analyze"
          /\ sched_pc' = OnException("analyze")
    /\ samples' = << >>
    /\ read_snaps' = {}
    /\ UNCHANGED <<cfgvars, bufvars, buffer_lock, cbvars, duration_seconds,
                   samples_needed, start_index, stop_index,
                   ready_to_publish, cycles, published, wait_timed_out,
                   mainvars, last_op>>

\* lines 276-277: publish_data (lines 246-256) when there is a result, or an
\* exception raised by it
publish_data ==
    /\ sched_pc = "publish"
    /\ main_pc # "exited"
    /\ \/ /\ data = << >>
          /\ sched_pc' = "wait"
          /\ UNCHANGED <<published, sched_error>>
       \/ /\ data # << >>
          /\ published' = published + 1
          /\ sched_pc' = "wait"
          /\ UNCHANGED sched_error
       \/ /\ data # << >>
          /\ sched_error' = "publish"
          /\ sched_pc' = OnException("publish")
          /\ UNCHANGED published
    /\ data' = << >>
    /\ UNCHANGED <<cfgvars, bufvars, buffer_lock, cbvars, readvars,
                   ready_to_publish, cycles, read_snaps, wait_timed_out,
                   mainvars, last_op>>

Next ==
    \/ run_connect
    \/ run_stream_start
    \/ run_thread_start
    \/ signal_handler
    \/ shutdown_set_event
    \/ shutdown_stop_stream
    \/ shutdown_join
    \/ shutdown_disconnect
    \/ clock_tick
    \/ \E frames \in 1..MaxBlock, overflow \in BOOLEAN : cb_invoke(frames, overflow)
    \/ cb_store1
    \/ cb_store2
    \/ cb_advance
    \/ cb_count
    \/ loop_head
    \/ wait_timeout
    \/ event_wait
    \/ read_enter
    \/ read_compare
    \/ read_stop
    \/ read_copy
    \/ read_raise
    \/ analyze_audio
    \/ publish_data

Spec == Init /\ [][Next]_vars

\* the steps of a callback in progress
CallbackNext ==
    \/ cb_store1
    \/ cb_store2
    \/ cb_advance
    \/ cb_count

\* the steps of the processing thread
SchedNext ==
    \/ loop_head
    \/ event_wait
    \/ read_enter
    \/ read_compare
    \/ read_stop
    \/ read_copy
    \/ read_raise
    \/ analyze_audio
    \/ publish_data

\* the running program with a processing thread that is not starved: the
\* interpreter keeps switching to a thread that can run
SpecLive == Spec /\ WF_vars(SchedNext)

----------------------------------------------------------------------------
(* Properties of the ring buffer *)

\* the buffer read in order from the write cursor: oldest cell first
InOrder(buf, w) == Slice(buf, w, Len(buf)) \o Slice(buf, 0, w)

\* the last n of the samples 1 .. total, zero fill before sample 1
LastWritten(n, total) == [i \in 1..n |-> Max(total - n + i, 0)]

\* a window whose samples numbered up to `a` are 0.0 and the later ones 1.0
ZerosThenOnes(window, a) == [i \in 1..Len(window) |-> IF window[i] <= a THEN 0 ELSE 1]

\* C3: from the zero-filled buffer, once capacity + k samples (0 <= k <
\* capacity) have been handed to audio_callback in one or more calls, every
\* call has completed, the buffer read in order from the write cursor is the
\* last capacity samples written in their order, and get_recent_audio of
\* capacity samples returns them: for a first run of `a` zeros followed by
\* ones (both runs at most capacity long), capacity - ones zeros and then
\* the ones.
C3_WraparoundKeepsLastCapacity ==
    (last_op # "none" /\ delivered >= buffer_size /\ delivered < 2 * buffer_size) =>
        /\ total_frames = delivered
        /\ InOrder(audio_buffer, write_index) = LastWritten(buffer_size, delivered)
        /\ (last_op = "read" /\ samples_needed = buffer_size) =>
              /\ samples = LastWritten(buffer_size, delivered)
              /\ \A a \in (delivered - buffer_size)..buffer_size :
                    ZerosThenOnes(samples, a) =
                        [i \in 1..buffer_size |->
                            IF i <= buffer_size - (delivered - a) THEN 0 ELSE 1]

C3_Witness ==
    /\ last_op = "read"
    /\ samples_needed = buffer_size
    /\ delivered > buffer_size
    /\ delivered < 2 * buffer_size
    /\ cb_frames < delivered
    /\ write_index > 0

\* C4: a get_recent_audio whose samples_needed is positive returns exactly
\* min(capacity, int(sample_rate * seconds)) samples, the i-th of them the
\* cell (write_index - samples_needed + i - 1) mod capacity: one contiguous
\* slice [start, write_index) when start < write_index, else [start,
\* capacity) followed by [0, write_index).
C4_ReadRecentWindow ==
    (last_op = "read" /\ IntTrunc(sample_rate * duration_seconds, 10) > 0) =>
        LET n == Min(buffer_size, IntTrunc(sample_rate * duration_seconds, 10))
            start == (write_index - n) % buffer_size
        IN  /\ samples_needed = n
            /\ start_index = start
            /\ Len(samples) = n
            /\ \A i \in 1..n :
                  samples[i] = audio_buffer[((write_index - n + i - 1) % buffer_size) + 1]
            /\ start < write_index =>
                  samples = SubSeq(audio_buffer, start + 1, write_index)
            /\ start >= write_index =>
                  samples = SubSeq(audio_buffer, start + 1, buffer_size)
                            \o SubSeq(audio_buffer, 1, write_index)

C4_Witness ==
    /\ last_op = "read"
    /\ samples_needed > 0
    /\ samples_needed < buffer_size
    /\ write_index > 0
    /\ start_index > write_index
    /\ Len(samples) = samples_needed
    /\ total_frames > buffer_size

\* C5: get_recent_audio with seconds <= 0, or before any data has been
\* written, returns an empty window.
C5_EmptyWindow ==
    (last_op = "read" /\ (duration_seconds <= 0 \/ total_frames = 0)) =>
        Len(samples) = 0

\* C6: a block of more than capacity frames either leaves buffer, write
\* cursor and frame count unchanged, or completes with the cursor advanced
\* by frames mod capacity and the buffer holding the block's last capacity
\* samples in order.
C6_OversizedBlock ==
    (last_op \in {"write", "write_raised"} /\ cb_frames > buffer_size) =>
        \/ /\ audio_buffer = cb_pre.buf
           /\ write_index = cb_pre.index
           /\ total_frames = cb_pre.total
        \/ /\ write_index = (cb_pre.index + cb_frames) % buffer_size
           /\ total_frames = cb_pre.total + cb_frames
           /\ InOrder(audio_buffer, write_index) = LastWritten(buffer_size, delivered)

\* C7: the write cursor is in [0, capacity), the buffer has exactly
\* capacity cells, and a completed write of `frames` samples leaves the
\* cursor at (old cursor + frames) mod capacity.
C7_CursorAndCapacity ==
    /\ Len(audio_buffer) = buffer_size
    /\ write_index \in 0..(buffer_size - 1)
    /\ last_op = "write" =>
          write_index = (cb_pre.index + cb_frames) % buffer_size

C7_Witness ==
    /\ last_op = "write"
    /\ cb_pre.index > 0
    /\ cb_pre.index + cb_frames > buffer_size
    /\ write_index > 0

----------------------------------------------------------------------------
(* Properties of the running program *)

ReadPcs == {"compare", "slice_nowrap", "slice_wrap", "copy_nowrap", "copy_wrap"}
CyclePcs == ReadPcs \cup {"enter", "analyze", "publish", "wait", "error_wait"}

\* C1: a get_recent_audio that overlaps an audio_callback returns the most
\* recent samples_needed samples of the buffer as it was entirely before or
\* entirely after that write (read_snaps holds exactly those windows).
C1_NoTornRead ==
    sched_pc = "analyze" => samples \in read_snaps

\* C2: the callback is never inside its buffer and cursor update while the
\* processing thread holds the buffer lock for its copy, and the lock is
\* free when the window is analysed.
C2_AccessSerialized ==
    /\ ~(buffer_lock = "processing" /\ cb_pc \in {"store1", "store2", "advance"})
    /\ sched_pc = "analyze" => buffer_lock = "free"

\* C8: the processing loop starts warming up; it reads, analyses and
\* publishes nothing while now - stream_start_time < analysis_window; it
\* becomes ready only on a tick that finds now - stream_start_time >=
\* analysis_window; once ready it stays ready.
C8_WarmupThenActive ==
    /\ [](sched_pc = "not_started" => ~ready_to_publish)
    /\ [](~ready_to_publish =>
            /\ sched_pc \notin CyclePcs
            /\ cycles = 0
            /\ published = 0)
    /\ [](now - stream_start_time < analysis_window =>
            /\ sched_pc \notin (ReadPcs \cup {"enter", "analyze", "publish"})
            /\ published = 0)
    /\ [][(~ready_to_publish /\ ready_to_publish') =>
            /\ sched_pc = "loop"
            /\ stream_start_time # 0
            /\ now - stream_start_time >= analysis_window]_vars
    /\ [][ready_to_publish => ready_to_publish']_vars

C8_Witness ==
    /\ ready_to_publish
    /\ published > 0
    /\ sched_pc = "analyze"
    /\ now - stream_start_time >= analysis_window
    /\ now > stream_start_time

\* C9: when the processing loop performs its first get_recent_audio, the
\* callback has written at least samples_needed frames, and the window
\* returned holds no zero fill.
C9_FirstWindowFilled ==
    (cycles = 1 /\ sched_pc \in (ReadPcs \cup {"analyze"})) =>
        /\ total_frames >= samples_needed
        /\ sched_pc = "analyze" => \A i \in 1..Len(samples) : samples[i] # 0

\* C10: an exception in a step of a tick (reading, analysing, publishing)
\* never ends the processing loop: control continues at line 276 or in the
\* one-second wait of line 283, the wait leads back to the loop test, the
\* loop test starts the next tick unless the shutdown event is set, and the
\* loop ends only at the loop test with the shutdown event set.
C10_ErrorsNeverEndLoop ==
    /\ [](sched_pc # "crashed")
    /\ [](sched_pc = "done" => shutdown_event)
    /\ [][(sched_error' # sched_error /\ sched_error' # "none") =>
            sched_pc' \in {"publish", "error_wait"}]_vars
    /\ [][(sched_pc = "error_wait" /\ sched_pc' # "error_wait") =>
            sched_pc' = "loop"]_vars
    /\ [][(sched_pc = "loop" /\ sched_pc' # "loop" /\ ~shutdown_event) =>
            sched_pc' \in {"warm_wait", "enter"}]_vars
    /\ [][(sched_pc # "done" /\ sched_pc' = "done") =>
            (sched_pc = "loop" /\ shutdown_event)]_vars

C10_Witness ==
    /\ sched_error = "publish"
    /\ sched_pc = "loop"
    /\ ~shutdown_event
    /\ cycles < MaxCycles

----------------------------------------------------------------------------
(* Shutdown and the processing loop *)

WaitPcs == {"warm_wait", "wait", "error_wait"}

\* the wait in progress can return at once, and no analysis cycle begins,
\* once the shutdown event is set
PromptStop ==
    /\ []((shutdown_event /\ sched_pc \in WaitPcs /\ main_pc # "exited") =>
            ENABLED event_wait)
    /\ [][shutdown_event => cycles' = cycles]_vars
    /\ [][(shutdown_event /\ sched_pc = "loop" /\ sched_pc' # "loop") =>
            sched_pc' = "done"]_vars

\* C11 as stated: once the shutdown event is set the current wait ends
\* without waiting out its interval, no new analysis cycle begins, and the
\* fairly scheduled loop eventually terminates.
C11_ShutdownEndsLoop ==
    /\ PromptStop
    /\ (shutdown_event ~> sched_pc = "done")

\* C11 amended: as above, but the loop terminates or the process exits
\* first, its joins (timeout 2.0 s) having returned before the daemon
\* thread reached the loop test.
C11_ShutdownEndsLoopOrProcess ==
    /\ PromptStop
    /\ (shutdown_event ~> (sched_pc = "done" \/ main_pc = "exited"))

C11_Witness ==
    /\ shutdown_event
    /\ sched_pc = "done"
    /\ ~wait_timed_out
    /\ main_pc # "exited"
    /\ cycles > 0

----------------------------------------------------------------------------
(* The capture callback and the processing thread *)

\* C12: the callback never waits for the processing thread: a block can be
\* handed in whatever the processing thread is doing, a callback in progress
\* can always take its next step, also while get_recent_audio holds the lock
\* or a window is being analysed, and the buffer never grows: a late reader
\* finds older samples overwritten.
C12_CallbackNeverBlocks ==
    /\ (stream_active /\ main_pc # "exited" /\ cb_pc = "idle"
          /\ delivered < MaxStreamed) => ENABLED cb_invoke(1, FALSE)
    /\ cb_pc # "idle" => ENABLED CallbackNext
    /\ Len(audio_buffer) = buffer_size

C12_Witness ==
    /\ cb_pc = "store1"
    /\ buffer_lock = "processing"
    /\ sched_pc \in {"copy_nowrap", "copy_wrap"}
    /\ total_frames >= buffer_size

----------------------------------------------------------------------------
(* The overflow counter *)

\* C13: overflow_count never decreases; a block handed in with
\* input_overflow set raises it by exactly 1 and a block without the flag
\* leaves it alone; no step of the processing thread and no step of
\* shutdown changes it, and the result of an analysis reports its current
\* value; a flagged block goes on to line 119 like any other and its samples
\* are stored at the write cursor.
C13_OverflowCounter ==
    /\ [][overflow_count' >= overflow_count]_vars
    /\ [][\A f \in 1..MaxBlock :
            /\ cb_invoke(f, TRUE) =>
                  /\ overflow_count' = overflow_count + 1
                  /\ cb_pc' = "store1"
                  /\ cb_frames' = f
            /\ cb_invoke(f, FALSE) => overflow_count' = overflow_count]_vars
    /\ [][overflow_count' # overflow_count => (cb_pc = "idle" /\ cb_pc' = "store1")]_vars
    /\ [][(sched_pc' # sched_pc \/ main_pc' # main_pc) =>
            overflow_count' = overflow_count]_vars
    /\ [][(sched_pc = "analyze" /\ sched_pc' = "publish" /\ data' # << >>) =>
            data'[1].overflows = overflow_count]_vars
    /\ [][(cb_pc = "store1" /\ cb_pc' # "store1") =>
            \A i \in 1..Min(cb_frames, buffer_size - write_index) :
                audio_buffer'[write_index + i] = delivered - cb_frames + i]_vars

C13_Witness ==
    /\ overflow_count = 1
    /\ cb_pc = "idle"
    /\ total_frames = delivered
    /\ delivered > 0
    /\ sched_pc = "publish"
    /\ data # << >>
    /\ data[1].overflows = 1

----------------------------------------------------------------------------
(* Configuration *)

\* lines 28-31: the durations are read from the environment as they are; a
\* window longer than the buffer is a configuration the program starts with
InitConfig ==
    \E bd \in BufferDurations, aw \in AnalysisWindows :
        /\ aw > bd
        /\ Constructed(10, 1, bd, aw)

SpecConfig == InitConfig /\ [][Next]_vars

\* an analysis has produced a result from fewer samples than
\* analysis_window asks for
ClampedAnalysis ==
    /\ data # << >>
    /\ Len(data[1].window) < IntTrunc(sample_rate * analysis_window, 10)

\* C14: a configuration whose analysis_window exceeds buffer_duration is
\* rejected at construction: no buffer is allocated, the stream is never
\* started and no analysis runs on a window shortened to the capacity.
C14_ConfigRejected ==
    analysis_window > buffer_duration =>
        /\ Len(audio_buffer) = 0
        /\ ~stream_active
        /\ ~ClampedAnalysis

----------------------------------------------------------------------------
(* The chunks of an analysis *)

\* sample rates whose 100 ms chunk has 2, 3 and 4 samples
ChunkRates == {25, 35, 45}

InitAnalyze ==
    \E rate \in ChunkRates, aw \in {1, 2} : Constructed(rate, 1, 2, aw)

\* analyze_audio(), lines 172-205, run from entry to return on a buffer no
\* callback is writing
analyze_audio_call ==
    LET needed == SamplesNeeded(sample_rate, analysis_window, buffer_size)
        window == RecentAudio(audio_buffer, write_index, needed, buffer_size)
    IN  /\ buffer_lock = "free"
        /\ duration_seconds' = analysis_window
        /\ samples_needed' = needed
        /\ start_index' = StartIndex(write_index, needed, buffer_size)
        /\ stop_index' = write_index
        /\ samples' = window
        /\ data' = AnalyzeWindow(window, sample_rate, overflow_count)
        /\ last_op' = "analyze"
        /\ UNCHANGED <<cfgvars, bufvars, buffer_lock, cbvars, sched_pc,
                       ready_to_publish, cycles, published, sched_error,
                       read_snaps, wait_timed_out, mainvars>>

NextAnalyze ==
    \/ \E frames \in 1..MaxBlock, overflow \in BOOLEAN : audio_callback(frames, overflow)
    \/ analyze_audio_call

SpecAnalyze == InitAnalyze /\ [][NextAnalyze]_vars

\* the length of the chunk of an n-sample window that starts at offset i
ChunkLen(n, chunk_size, i) == Min(chunk_size, n - i)

\* the chunks of at least half the target length
HalfChunks(n, chunk_size) ==
    {i \in ChunkStarts(n, chunk_size) : 2 * ChunkLen(n, chunk_size, i) >= chunk_size}

\* C15: analyze_audio cuts the window into consecutive chunks of chunk_size
\* samples, the last one possibly shorter; exactly the chunks whose length is
\* at least half of chunk_size enter min_db/max_db, for odd chunk_size too;
\* a result is returned only when at least one chunk entered.
C15_ChunksOfHalfLength ==
    last_op = "analyze" =>
        LET n == Len(samples)
            c == ChunkSize(sample_rate)
        IN  /\ \A i \in 0..(n - 1) : \E k \in ChunkStarts(n, c) :
                    k <= i /\ i < k + ChunkLen(n, c, k)
            /\ \A k \in ChunkStarts(n, c) :
                    ChunkLen(n, c, k) = c \/ k + ChunkLen(n, c, k) = n
            /\ IncludedChunks(n, c) = HalfChunks(n, c)
            /\ data # << >> => /\ IncludedChunks(n, c) # {}
                               /\ data[1].chunks = Cardinality(HalfChunks(n, c))

----------------------------------------------------------------------------
(* Ownership of the returned window *)

\* C16: the array get_recent_audio returned owns its data: whatever
\* audio_callback writes afterwards, the window reads the same, length and
\* contents, whether it was copied from one slice (line 145) or concatenated
\* from two (lines 148-151).
C16_WindowIsOwnedCopy ==
    [][last_op' \in {"write", "write_raised"} =>
          /\ samples' = samples
          /\ Deref(samples', audio_buffer') = Deref(samples, audio_buffer)]_vars

\* a window concatenated from two parts, and the cells it was taken from
\* overwritten since
C16_Witness ==
    /\ last_op = "write"
    /\ samples_needed > 0
    /\ start_index >= stop_index
    /\ Len(samples) = samples_needed
    /\ \A i \in 1..Len(samples) :
          samples[i] # Concatenate(audio_buffer, start_index, stop_index)[i]

----------------------------------------------------------------------------
(* Cursor and frame count *)

\* C17: after every audio_callback the write cursor is total_frames modulo
\* the capacity; a callback either adds its frames to total_frames and moves
\* the cursor by the same amount, or (when a store raised) leaves both as
\* they were; a block of at most buffer_size frames always does the former.
C17_CursorIsTotalModCapacity ==
    /\ write_index = total_frames % buffer_size
    /\ last_op \in {"write", "write_raised"} =>
          \/ /\ last_op = "write"
             /\ total_frames = cb_pre.total + cb_frames
             /\ write_index = (cb_pre.index + cb_frames) % buffer_size
          \/ /\ last_op = "write_raised"
             /\ cb_frames > buffer_size
             /\ total_frames = cb_pre.total
             /\ write_index = cb_pre.index

\* several blocks in, the count beyond the capacity and the cursor wrapped
C17_Witness ==
    /\ last_op = "write"
    /\ cb_frames \in 1..buffer_size
    /\ cb_pre.total > buffer_size
    /\ total_frames = delivered
    /\ write_index = total_frames % buffer_size
    /\ write_index < cb_pre.index

----------------------------------------------------------------------------
(* Shutdown *)

\* how many times a teardown step of shutdown() has been executed: once in
\* the call the signal handler made when that call is over, and once more
\* when the call in progress is past the step
Executed(step) ==
    LET past == CASE step = "stream" -> {"sh_join", "sh_mqtt", "exited"}
                  [] step = "join"   -> {"sh_mqtt", "exited"}
                  [] step = "mqtt"   -> {"exited"}
    IN  (IF shutdown_calls = 2 THEN 1 ELSE 0) + (IF main_pc \in past THEN 1 ELSE 0)

\* C18: after a signal received in the main loop, stopping and closing the
\* stream, joining the processing thread, and stopping and disconnecting
\* the MQTT client are each executed at most once.
C18_TeardownOnce ==
    \A step \in {"stream", "join", "mqtt"} : Executed(step) <= 1

\* C19: the processing thread never publishes after shutdown has
\* disconnected the MQTT client: every publish happens while the client is
\* connected.
C19_NoPublishAfterDisconnect ==
    [][published' > published => mqtt_connected]_vars

\* C20: audio_buffer, write_index and total_frames change only while the
\* stream is started; shutdown sets the event, then stops the stream, then
\* joins the processing thread, then disconnects the MQTT client: each step
\* is taken only when the steps before it have been taken in the same call.
C20_ShutdownOrder ==
    /\ [][<<audio_buffer, write_index, total_frames>>' #
             <<audio_buffer, write_index, total_frames>> => stream_active]_vars
    /\ [][~stream_active => cb_pc' = cb_pc]_vars
    /\ [][(shutdown_event' # shutdown_event) =>
             /\ main_pc = "sh_set" /\ main_pc' = "sh_stream"
             /\ stream_active /\ mqtt_connected]_vars
    /\ [][(main_pc = "sh_stream" /\ main_pc' # main_pc) =>
             /\ shutdown_event
             /\ ~stream_active'
             /\ main_pc' = "sh_join"]_vars
    /\ [][(main_pc = "sh_join" /\ main_pc' # main_pc) =>
             /\ shutdown_event
             /\ ~stream_active
             /\ main_pc' = "sh_mqtt"]_vars
    /\ [][(mqtt_connected /\ ~mqtt_connected') =>
             /\ main_pc = "sh_mqtt"
             /\ shutdown_event
             /\ ~stream_active]_vars
    /\ [][(stream_active /\ ~stream_active') =>
             /\ main_pc = "sh_stream"
             /\ shutdown_event
             /\ mqtt_connected]_vars

\* the first call of shutdown is at the join, the stream stopped after a
\* callback has written, the processing thread in the middle of a tick
C20_Witness ==
    /\ main_pc = "sh_join"
    /\ shutdown_calls = 1
    /\ ~stream_active
    /\ total_frames > buffer_size
    /\ mqtt_connected
    /\ sched_pc \in ReadPcs

====
